---- MODULE Spec2Model ----
(***************************************************************************)
(* jishaku.features.management: the extension and bot control commands.    *)
(*                                                                         *)
(* One command invocation is in flight at a time.  A handler whose body    *)
(* is a loop takes one step per loop iteration; the code after the loop    *)
(* (sending the paginator's pages) belongs to the step that leaves the     *)
(* loop.  The requests an invocation issues are logged in ext_calls,       *)
(* upserts and msgs; pc = "done" when the handler has ended, and the logs  *)
(* are dropped when the framework goes back to waiting for a command.      *)
(*                                                                         *)
(* The framework is the environment: an extension call succeeds or raises  *)
(* an Exception, a bulk upsert succeeds or raises discord.HTTPException,   *)
(* the gateway latency is any value of Latencies at each read.  Transport  *)
(* failures of ctx.send / message.edit / application_info and lines longer *)
(* than a paginator page are not modelled.                                 *)
(***************************************************************************)
EXTENDS Integers, Sequences, FiniteSets, TLC

\* ---------------------------------------------------------------- bounds
MaxArgs == 2      \* extension arguments of one load/unload invocation
MaxTargets == 2   \* targets of one sync invocation

\* ------------------------------------------------------------ the inputs
AllowedIds == {"271140080188522497", "982960716413825085"}
AuthorIds == AllowedIds \cup {"100000000000000001"}

ExtNames == {"jishaku", "cog"}

\* Optional[int]: None, or an integer
None == [some |-> FALSE, id |-> 0]
Some(n) == [some |-> TRUE, id |-> n]
IsNone(g) == ~g.some
\* Python truthiness of an Optional[int]: None and 0 are falsy
Truthy(g) == g.some /\ g.id # 0

RECURSIVE SeqsUpTo(_, _)
SeqsUpTo(S, n) ==
    IF n = 0 THEN {<<>>}
    ELSE LET shorter == SeqsUpTo(S, n - 1)
         IN  shorter \cup {Append(s, x) : s \in {t \in shorter : Len(t) = n - 1}, x \in S}

\* itertools.chain(*extensions)
RECURSIVE Chain(_)
Chain(lists) == IF lists = <<>> THEN <<>> ELSE Head(lists) \o Chain(Tail(lists))

\* the guard every gated handler opens with
DeniedInverted(author) == author = "271140080188522497" \/ author = "982960716413825085"
Denied(author) == author # "271140080188522497" /\ author # "982960716413825085"

\* ------------------------------------------------------------- the state
VARIABLES
    extensions,          \* bot.extensions: the names of the loaded extensions
    closed,              \* the bot has been closed
    pc,                  \* "idle", the loop the in-flight handler is in, or "done"
    outcome,             \* how the last finished handler ended
    inv,                 \* the invocation in flight (or the last one)
    names_left,          \* load/unload: the names the loop has not reached
    guilds_left,         \* sync: the normalized targets the loop has not reached
    paginator,           \* the lines added to the paginator
    ext_calls,           \* load/reload/unload requests of this invocation
    upserts,             \* bulk-upsert requests of this invocation
    msgs,                \* messages sent or edited by this invocation
    message,             \* rtt: index in msgs of the message sent, 0 = None
    api_readings,        \* rtt
    websocket_readings,  \* rtt
    rtt_iter,            \* rtt: iterations done
    latency,             \* rtt: bot.latency, which changes only while the handler awaits
    probes               \* rtt: what each request met (its duration, the latency
                         \* read before and after it)

vars == <<extensions, closed, pc, outcome, inv, names_left, guilds_left, paginator,
          ext_calls, upserts, msgs, message, api_readings, websocket_readings, rtt_iter,
          latency, probes>>

\* an invocation: the command, ctx (invoked_with, author, guild), its arguments,
\* and what the handler finds in the bot (application_id set or not, the guilds
\* that have guild commands registered in bot.tree)
Invocation(cmd, invoked_with, author, exts, targets, guild, app, tree) ==
    [cmd |-> cmd, invoked_with |-> invoked_with, author |-> author,
     extensions |-> exts, targets |-> targets, guild |-> guild,
     application_id |-> app, tree_guilds |-> tree]

\* a chat message request: a send, or an edit of message number target
Message(kind, type, text, entries, readings, ws, target) ==
    [kind |-> kind, type |-> type, text |-> text, entries |-> entries,
     readings |-> readings, ws |-> ws, target |-> target]

TextMessage(text) == Message("send", "text", text, <<>>, <<>>, 0, 0)

\* paginator.pages, each sent with ctx.send: no page when no line was added
PagesNever(lines) == <<>>
Pages(lines) ==
    IF lines = <<>> THEN <<>> ELSE << Message("send", "page", "", lines, <<>>, 0, 0) >>

\* a command is invoked: the handler starts with empty request logs and locals
Begin(i) ==
    /\ inv' = i
    /\ UNCHANGED <<ext_calls, upserts, message, api_readings, websocket_readings, rtt_iter,
                   probes>>

\* the handler returns, having sent the messages `sent`
Return(sent) ==
    /\ pc' = "done"
    /\ outcome' = "returned"
    /\ msgs' = sent

NoInvocation == Invocation("none", "none", "100000000000000001", <<>>, <<>>, None, FALSE, {})

\* the handler has ended and the bot is still running: the framework waits for
\* the next command, and the ended invocation's requests are forgotten
next_command ==
    /\ pc = "done"
    /\ ~closed
    /\ pc' = "idle"
    /\ outcome' = "none"
    /\ inv' = NoInvocation
    /\ names_left' = <<>>
    /\ guilds_left' = <<>>
    /\ paginator' = <<>>
    /\ ext_calls' = <<>>
    /\ upserts' = <<>>
    /\ msgs' = <<>>
    /\ message' = 0
    /\ api_readings' = <<>>
    /\ websocket_readings' = <<>>
    /\ rtt_iter' = 0
    /\ probes' = <<>>
    /\ latency' = 0
    /\ UNCHANGED <<extensions, closed>>

\* ------------------------------------------------------- load / reload
ReloadIcon == "<:pln:1002153692268593173>"
LoadIcon == "<:lopn:1002153688812490842>"
UnloadIcon == "<:Info:1002155559098781787>"

\* the method the loop picks for a name, given bot.extensions
MethodInverted(extension, loaded) == IF extension \in loaded THEN "load" ELSE "reload"
Method(extension, loaded) == IF extension \in loaded THEN "reload" ELSE "load"

IconOf(method) == IF method = "reload" THEN ReloadIcon ELSE LoadIcon

\* the line added for a name: the icon and the name, with the traceback on failure
ReportLineAlwaysFine(icon, extension, failed) == [icon |-> icon, name |-> extension, failed |-> FALSE]
ReportLine(icon, extension, failed) == [icon |-> icon, name |-> extension, failed |-> failed]

\* 'jsk reload' on its own just reloads jishaku
LoadNames(invoked_with, exts) ==
    IF invoked_with = "reload" /\ exts = <<>> THEN <<"jishaku">> ELSE Chain(exts)

\* an extension argument is converted to the list of the names it matches
ExtLists == { <<>>, <<"jishaku">>, <<"cog">>, <<"cog", "jishaku">>, <<"cog", "cog">> }
ExtArgs == SeqsUpTo(ExtLists, MaxArgs)

jsk_load ==
    /\ pc = "idle"
    /\ \E author \in AuthorIds, invoked_with \in {"load", "reload"}, exts \in ExtArgs :
        /\ Begin(Invocation("load", invoked_with, author, exts, <<>>, None, FALSE, {}))
        /\ paginator' = <<>>
        /\ guilds_left' = <<>>
        /\ UNCHANGED <<extensions, closed, latency>>
        /\ IF Denied(author)
           THEN names_left' = <<>> /\ Return(<<>>)
           ELSE LET names == LoadNames(invoked_with, exts)
                IN  /\ names_left' = names
                    /\ IF names = <<>>
                       THEN Return(Pages(<<>>))
                       ELSE pc' = "load" /\ outcome' = "running" /\ msgs' = <<>>

\* what a successful call does to bot.extensions
AfterCall(method, extension, loaded) ==
    CASE method = "load" -> loaded \cup {extension}
      [] method = "reload" -> loaded
      [] method = "unload" -> loaded \ {extension}

\* one iteration of the loop of a load or unload: the call, then the line
ExtensionStep(method, icon, ok) ==
    LET extension == Head(names_left)
        line == ReportLine(icon, extension, ~ok)
    IN  /\ ext_calls' = Append(ext_calls,
              [method |-> method, name |-> extension, ok |-> ok,
               was_loaded |-> extension \in extensions])
        /\ extensions' = IF ok THEN AfterCall(method, extension, extensions) ELSE extensions
        /\ paginator' = Append(paginator, line)
        /\ names_left' = Tail(names_left)
        /\ IF Tail(names_left) = <<>>
           THEN Return(msgs \o Pages(Append(paginator, line)))
           ELSE UNCHANGED <<pc, outcome, msgs>>
        /\ UNCHANGED <<closed, inv, guilds_left, upserts, message, api_readings,
                       websocket_readings, rtt_iter, latency, probes>>

jsk_load_step ==
    /\ pc = "load"
    /\ \E ok \in BOOLEAN :
          LET method == Method(Head(names_left), extensions)
          IN  ExtensionStep(method, IconOf(method), ok)

\* ---------------------------------------------------------------- unload
jsk_unload ==
    /\ pc = "idle"
    /\ \E author \in AuthorIds, exts \in ExtArgs :
        /\ Begin(Invocation("unload", "unload", author, exts, <<>>, None, FALSE, {}))
        /\ paginator' = <<>>
        /\ guilds_left' = <<>>
        /\ UNCHANGED <<extensions, closed, latency>>
        /\ IF Denied(author)
           THEN names_left' = <<>> /\ Return(<<>>)
           ELSE LET names == Chain(exts)
                IN  /\ names_left' = names
                    /\ IF names = <<>>
                       THEN Return(Pages(<<>>))
                       ELSE pc' = "unload" /\ outcome' = "running" /\ msgs' = <<>>

\* bot.unload_extension raises for a name that is not loaded
jsk_unload_step ==
    /\ pc = "unload"
    /\ ExtensionStep("unload", UnloadIcon, Head(names_left) \in extensions)

\* ------------------------------------------------------ shutdown, invite
jsk_shutdown ==
    /\ pc = "idle"
    /\ \E author \in AuthorIds :
        /\ Begin(Invocation("shutdown", "shutdown", author, <<>>, <<>>, None, FALSE, {}))
        /\ UNCHANGED <<extensions, names_left, guilds_left, paginator, latency>>
        /\ IF Denied(author)
           THEN Return(<<>>) /\ UNCHANGED closed
           ELSE /\ Return(<< TextMessage("Logging out now") >>)
                /\ closed' = TRUE

jsk_invite ==
    /\ pc = "idle"
    /\ \E author \in AuthorIds :
        /\ Begin(Invocation("jskinvite", "jskinvite", author, <<>>, <<>>, None, FALSE, {}))
        /\ UNCHANGED <<extensions, closed, names_left, guilds_left, paginator, latency>>
        /\ Return(<< TextMessage("Link to invite this bot") >>)

\* ------------------------------------------------------------------- rtt
RttIterations == 6

\* the values bot.latency may have when it is read
Latencies == {-1, 0, 2}
\* what a request may meet: the time it takes, and bot.latency when it is over
Requests == {[elapsed |-> 1, latency |-> -1], [elapsed |-> 2, latency |-> 0],
             [elapsed |-> 1, latency |-> 2], [elapsed |-> 2, latency |-> 2]}

RECURSIVE Sum(_)
Sum(seq) == IF seq = <<>> THEN 0 ELSE Head(seq) + Sum(Tail(seq))

\* websocket latencies that are 0 or negative are not recorded
RecordedFromZero(lat) == lat >= 0
Recorded(lat) == lat > 0

\* the "Websocket latency" of the text, in hundredths: the mean of the recorded
\* readings, or bot.latency when nothing was recorded
WebsocketShown(readings, lat) ==
    IF readings # <<>> THEN (100 * Sum(readings)) \div Len(readings) ELSE 100 * lat

\* the text of a request: every api reading so far, their average if there is
\* one, and the websocket latency
RttText(kind, target, readings, ws_readings, lat) ==
    Message(kind, "rtt", IF readings # <<>> THEN "Average" ELSE "No readings yet.",
            <<>>, readings, WebsocketShown(ws_readings, lat), target)

jsk_rtt ==
    /\ pc = "idle"
    /\ \E author \in AuthorIds :
        /\ Begin(Invocation("rtt", "rtt", author, <<>>, <<>>, None, FALSE, {}))
        /\ UNCHANGED <<extensions, closed, names_left, guilds_left, paginator>>
        /\ IF Denied(author)
           THEN Return(<<>>) /\ UNCHANGED latency
           ELSE /\ pc' = "rtt" /\ outcome' = "running" /\ msgs' = <<>>
                /\ latency' \in Latencies

\* one iteration: the text, the request (a send, then edits of the message sent),
\* the api reading, the websocket reading
jsk_rtt_step ==
    /\ pc = "rtt"
    /\ \E request \in Requests :
       LET before == latency
           after == request.latency
           elapsed == request.elapsed
       IN /\ IF message # 0
             THEN /\ msgs' = Append(msgs, RttText("edit", message, api_readings,
                                                  websocket_readings, before))
                  /\ UNCHANGED message
             ELSE /\ msgs' = Append(msgs, RttText("send", 0, api_readings,
                                                  websocket_readings, before))
                  /\ message' = Len(msgs) + 1
          /\ api_readings' = Append(api_readings, elapsed)
          /\ websocket_readings' =
                IF Recorded(after) THEN Append(websocket_readings, after)
                ELSE websocket_readings
          /\ latency' = after
          /\ probes' = Append(probes, [elapsed |-> elapsed, before |-> before, after |-> after])
    /\ rtt_iter' = rtt_iter + 1
    /\ IF rtt_iter + 1 = RttIterations
       THEN pc' = "done" /\ outcome' = "returned"
       ELSE UNCHANGED <<pc, outcome>>
    /\ UNCHANGED <<extensions, closed, inv, names_left, guilds_left, paginator,
                   ext_calls, upserts>>

\* ------------------------------------------------------------------ sync
\* a target is a word of the command line, a sequence of characters
Targets == { <<"$">>, <<"*">>, <<".">>, <<"0">>, <<"2">>, <<"-", "1">>, <<"x">> }

DigitValue == [c \in {"0", "1", "2", "3", "4", "5", "6", "7", "8", "9"} |->
                 CASE c = "0" -> 0 [] c = "1" -> 1 [] c = "2" -> 2 [] c = "3" -> 3
                   [] c = "4" -> 4 [] c = "5" -> 5 [] c = "6" -> 6 [] c = "7" -> 7
                   [] c = "8" -> 8 [] c = "9" -> 9]

Unsigned(word) == IF word # <<>> /\ Head(word) \in {"-", "+"} THEN Tail(word) ELSE word

\* int(target) does not raise ValueError
IsInt(word) ==
    /\ Unsigned(word) # <<>>
    /\ \A i \in 1..Len(Unsigned(word)) : Unsigned(word)[i] \in DOMAIN DigitValue

RECURSIVE DigitsValue(_)
DigitsValue(digits) ==
    IF digits = <<>> THEN 0
    ELSE 10 * DigitsValue(SubSeq(digits, 1, Len(digits) - 1)) + DigitValue[digits[Len(digits)]]

\* int(target)
IntOf(word) ==
    IF Head(word) = "-" THEN 0 - DigitsValue(Unsigned(word)) ELSE DigitsValue(Unsigned(word))

\* the loop over the targets: the set of guilds collected when it ran to its end,
\* or how it left the handler ('.' without a guild: a message and a return; a
\* target that is no integer: BadArgument is raised)
RECURSIVE CollectTargetsLenient(_, _, _, _)
CollectTargetsLenient(targets, guild, tree, guilds_set) ==
    IF targets = <<>> THEN [status |-> "ok", guilds_set |-> guilds_set]
    ELSE LET target == Head(targets)
             rest == Tail(targets)
         IN  CASE target = <<"$">> ->
                    CollectTargetsLenient(rest, guild, tree, guilds_set \cup {None})
               [] target = <<"*">> ->
                    CollectTargetsLenient(rest, guild, tree, guilds_set \cup {Some(g) : g \in tree})
               [] target = <<".">> ->
                    IF guild.some
                    THEN CollectTargetsLenient(rest, guild, tree, guilds_set \cup {guild})
                    ELSE CollectTargetsLenient(rest, guild, tree, guilds_set)
               [] OTHER ->
                    IF IsInt(target)
                    THEN CollectTargetsLenient(rest, guild, tree, guilds_set \cup {Some(IntOf(target))})
                    ELSE CollectTargetsLenient(rest, guild, tree, guilds_set)

RECURSIVE CollectTargets(_, _, _, _)
CollectTargets(targets, guild, tree, guilds_set) ==
    IF targets = <<>> THEN [status |-> "ok", guilds_set |-> guilds_set]
    ELSE LET target == Head(targets)
             rest == Tail(targets)
         IN  CASE target = <<"$">> ->
                    CollectTargets(rest, guild, tree, guilds_set \cup {None})
               [] target = <<"*">> ->
                    CollectTargets(rest, guild, tree, guilds_set \cup {Some(g) : g \in tree})
               [] target = <<".">> ->
                    IF guild.some
                    THEN CollectTargets(rest, guild, tree, guilds_set \cup {guild})
                    ELSE [status |-> "no_guild", guilds_set |-> guilds_set]
               [] OTHER ->
                    IF IsInt(target)
                    THEN CollectTargets(rest, guild, tree, guilds_set \cup {Some(IntOf(target))})
                    ELSE [status |-> "BadArgument", guilds_set |-> guilds_set]

\* an empty target list means global
WithDefault(targets, guilds_set) ==
    IF targets = <<>> THEN guilds_set \cup {None} ELSE guilds_set

\* the order of the sort key (g is not None, g)
KeyLess(a, b) == (IsNone(a) /\ ~IsNone(b)) \/ (~IsNone(a) /\ ~IsNone(b) /\ a.id < b.id)

\* list(guilds_set) sorted by the key
RECURSIVE SortGuildsReversed(_)
SortGuildsReversed(guilds_set) ==
    IF guilds_set = {} THEN <<>>
    ELSE LET first == CHOOSE g \in guilds_set : \A h \in guilds_set \ {g} : KeyLess(h, g)
         IN  <<first>> \o SortGuildsReversed(guilds_set \ {first})

RECURSIVE SortGuilds(_)
SortGuilds(guilds_set) ==
    IF guilds_set = {} THEN <<>>
    ELSE LET first == CHOOSE g \in guilds_set : \A h \in guilds_set \ {g} : KeyLess(g, h)
         IN  <<first>> \o SortGuilds(guilds_set \ {first})

\* bot.tree: the application commands registered globally and per guild
Leaf(name, params) == [name |-> name, kind |-> "command", children |-> <<>>, params |-> params]
Group(name, children) == [name |-> name, kind |-> "group", children |-> children, params |-> <<>>]

GlobalCommands == << Leaf("ping", <<"target">>), Group("admin", << Leaf("ban", <<>>) >>) >>
GuildCommands(id) == << Leaf("local", <<"id">>) >>

\* bot.tree._get_all_commands(guild=...)
TreeCommands(scope, tree) ==
    IF IsNone(scope) THEN GlobalCommands
    ELSE IF scope.id \in tree THEN GuildCommands(scope.id) ELSE <<>>

RECURSIVE Names(_)
Names(commands) == IF commands = <<>> THEN <<>> ELSE <<Head(commands).name>> \o Names(Tail(commands))

\* the lines of the text of an HTTPException: a line the error pattern does not
\* match, or one it matches, with the indices of the path it names (`odd`: the
\* path ends in a dot, and splits into an odd number of parts) and whether the
\* inspection of the command found succeeds
Plain == [match |-> FALSE, path |-> <<>>, odd |-> FALSE, inspect_ok |-> FALSE]
In(path, odd, inspect_ok) == [match |-> TRUE, path |-> path, odd |-> odd, inspect_ok |-> inspect_ok]

HttpErrors == { << Plain >>,
                << In(<<0, 0>>, FALSE, TRUE), In(<<1>>, FALSE, FALSE) >>,
                << Plain, In(<<1, 0, 0>>, FALSE, TRUE), In(<<0>>, TRUE, TRUE) >> }

Note(kind, name) == [note |-> kind, name |-> name]

\* the walk along the path: pool[index] while there is a pool, then a parameter
\* of the selected command; an index out of range, or a selected command without
\* parameters, raises
RECURSIVE Walk(_, _, _, _)
Walk(path, pool, selected, name) ==
    IF path = <<>> THEN [raised |-> FALSE, selected |-> selected, name |-> name]
    ELSE LET index == Head(path)
         IN  IF pool # <<>>
             THEN IF index >= Len(pool)
                  THEN [raised |-> TRUE, selected |-> selected, name |-> name]
                  ELSE LET command == pool[index + 1]
                       IN  Walk(Tail(path),
                                IF command.kind = "group" THEN command.children ELSE <<>>,
                                <<command>>, Append(name, command.name))
             ELSE IF \/ selected = <<>>
                     \/ Head(selected).kind # "command"
                     \/ index >= Len(Head(selected).params)
                  THEN [raised |-> TRUE, selected |-> selected, name |-> name]
                  ELSE Walk(Tail(path), pool, selected,
                            Append(name, Head(selected).params[index + 1]))

\* what the diagnosis of one line appends after the line itself: nothing, the
\* likely cause (with its location when the inspection succeeds), or the notice
\* that replaces an exception of the diagnosis
DiagnoseLine(line, slash_commands) ==
    IF ~line.match THEN <<>>
    ELSE IF line.odd THEN << Note("Couldn't determine cause", <<>>) >>
    ELSE LET walk == Walk(line.path, slash_commands, <<>>, <<>>)
         IN  IF walk.raised THEN << Note("Couldn't determine cause", <<>>) >>
             ELSE IF walk.selected = <<>> THEN <<>>
             ELSE IF Head(walk.selected).kind = "command" /\ line.inspect_ok
                  THEN << Note("likely caused by, at", walk.name) >>
                  ELSE << Note("likely caused by", walk.name) >>

\* error_lines: every line of the error, each followed by its diagnosis
RECURSIVE Diagnose(_, _)
Diagnose(error, slash_commands) ==
    IF error = <<>> THEN <<>>
    ELSE << Note("line", <<>>) >> \o DiagnoseLine(Head(error), slash_commands)
            \o Diagnose(Tail(error), slash_commands)

\* the line added for a target: a warning with the error text, or the number of
\* commands synced; it names the guild if `guild` is truthy, else it says global
SyncLine(guild, ok, count, error_lines) ==
    [kind |-> IF ok THEN "synced" ELSE "warning",
     label |-> IF Truthy(guild) THEN "guild" ELSE "global",
     guild |-> guild.id, count |-> count, error_lines |-> error_lines]

\* the paginator after the target's turn
AddSyncLineOnSuccess(lines, guild, ok, count, error_lines) ==
    IF ok THEN Append(lines, SyncLine(guild, ok, count, error_lines)) ELSE lines
AddSyncLine(lines, guild, ok, count, error_lines) ==
    Append(lines, SyncLine(guild, ok, count, error_lines))

jsk_sync ==
    /\ pc = "idle"
    /\ \E author \in AuthorIds, targets \in SeqsUpTo(Targets, MaxTargets),
       guild \in {None, Some(1)}, app \in BOOLEAN, tree \in {{}, {1, 2}} :
        /\ Begin(Invocation("sync", "sync", author, <<>>, targets, guild, app, tree))
        /\ paginator' = <<>>
        /\ names_left' = <<>>
        /\ UNCHANGED <<extensions, closed, latency>>
        /\ IF Denied(author)
           THEN guilds_left' = <<>> /\ Return(<<>>)
           ELSE IF ~app
           THEN /\ guilds_left' = <<>>
                /\ Return(<< TextMessage("Cannot sync when application info not fetched") >>)
           ELSE LET collected == CollectTargets(targets, guild, tree, {})
                    guilds == SortGuilds(WithDefault(targets, collected.guilds_set))
                IN  CASE collected.status = "no_guild" ->
                           /\ guilds_left' = <<>>
                           /\ Return(<< TextMessage("Can't sync guild commands without guild information") >>)
                      [] collected.status = "BadArgument" ->
                           /\ guilds_left' = <<>>
                           /\ pc' = "done" /\ outcome' = "BadArgument" /\ msgs' = <<>>
                      [] OTHER ->
                           /\ guilds_left' = guilds
                           /\ IF guilds = <<>>
                              THEN Return(Pages(<<>>))
                              ELSE pc' = "sync" /\ outcome' = "running" /\ msgs' = <<>>

\* one iteration of the loop over the guilds: the payload, the request, the line
jsk_sync_step ==
    /\ pc = "sync"
    /\ \E ok \in BOOLEAN, error \in HttpErrors :
          LET guild == Head(guilds_left)
              scope == IF Truthy(guild) THEN guild ELSE None
              slash_commands == TreeCommands(scope, inv.tree_guilds)
              payload == Names(slash_commands)
              error_lines == IF ok THEN <<>> ELSE Diagnose(error, slash_commands)
              lines == AddSyncLine(paginator, guild, ok, Len(payload), error_lines)
          IN  /\ upserts' = Append(upserts,
                    [endpoint |-> IF IsNone(guild) THEN "global" ELSE "guild",
                     guild |-> guild.id, scope |-> scope, payload |-> payload,
                     ok |-> ok, error |-> IF ok THEN <<>> ELSE error])
              /\ paginator' = lines
              /\ guilds_left' = Tail(guilds_left)
              /\ IF Tail(guilds_left) = <<>>
                 THEN Return(msgs \o Pages(lines))
                 ELSE UNCHANGED <<pc, outcome, msgs>>
    /\ UNCHANGED <<extensions, closed, inv, names_left, ext_calls, message, api_readings,
                   websocket_readings, rtt_iter, latency, probes>>

Init ==
    /\ extensions \in SUBSET ExtNames
    /\ closed = FALSE
    /\ pc = "idle"
    /\ outcome = "none"
    /\ inv = NoInvocation
    /\ names_left = <<>>
    /\ guilds_left = <<>>
    /\ paginator = <<>>
    /\ ext_calls = <<>>
    /\ upserts = <<>>
    /\ msgs = <<>>
    /\ message = 0
    /\ api_readings = <<>>
    /\ websocket_readings = <<>>
    /\ rtt_iter = 0
    /\ probes = <<>>
    /\ latency = 0

Next ==
    \/ jsk_load
    \/ jsk_load_step
    \/ jsk_unload
    \/ jsk_unload_step
    \/ jsk_shutdown
    \/ jsk_invite
    \/ jsk_rtt
    \/ jsk_rtt_step
    \/ jsk_sync
    \/ jsk_sync_step
    \/ next_command

Spec == Init /\ [][Next]_vars

\* ================================================================ claims
Authorized == inv.author \in AllowedIds
Done == pc = "done"

\* the report lines of the messages sent, in the order sent
RECURSIVE EntriesOf(_)
EntriesOf(sent) ==
    IF sent = <<>> THEN <<>>
    ELSE EntriesOf(SubSeq(sent, 1, Len(sent) - 1)) \o sent[Len(sent)].entries

SentEntries == EntriesOf(msgs)

\* the names a load/unload invocation is given, occurrence by occurrence
RECURSIVE Flat(_)
Flat(lists) ==
    IF lists = <<>> THEN <<>>
    ELSE Flat(SubSeq(lists, 1, Len(lists) - 1)) \o lists[Len(lists)]

GivenNames ==
    IF inv.invoked_with = "reload" /\ Len(inv.extensions) = 0
    THEN <<"jishaku">> ELSE Flat(inv.extensions)

\* what the targets of a sync invocation mean
Meaning(target) ==
    CASE target = <<"$">> -> {None}
      [] target = <<"*">> -> {Some(g) : g \in inv.tree_guilds}
      [] target = <<".">> -> IF inv.guild.some THEN {inv.guild} ELSE {}
      [] target = <<"0">> -> {Some(0)}
      [] target = <<"2">> -> {Some(2)}
      [] target = <<"-", "1">> -> {Some(0 - 1)}
      [] OTHER -> {}

NotAnInteger(target) == target = <<"x">>
DotWithoutGuild(target) == target = <<".">> /\ ~inv.guild.some
Offending(target) == NotAnInteger(target) \/ DotWithoutGuild(target)

HasOffending == \E i \in 1..Len(inv.targets) : Offending(inv.targets[i])
FirstOffending ==
    CHOOSE i \in 1..Len(inv.targets) :
        Offending(inv.targets[i]) /\ \A j \in 1..(i - 1) : ~Offending(inv.targets[j])

ExpectedGuilds ==
    IF inv.targets = <<>> THEN {None}
    ELSE UNION {Meaning(inv.targets[i]) : i \in 1..Len(inv.targets)}

\* the target of a request: None for the global endpoint, else the guild
RequestTarget(u) == IF u.endpoint = "global" THEN None ELSE Some(u.guild)

\* global first, then ascending
Before(a, b) == IF a.some THEN b.some /\ a.id < b.id ELSE b.some

\* C1: a caller outside the allow-list changes nothing: in every step of an
\* invocation of such a caller the loaded extensions and the closed flag stay
\* as they are, and the invocation has issued no load, reload, unload or
\* bulk-upsert request.
C1_UnauthorizedChangesNothing ==
    [][(inv'.author \notin AllowedIds) =>
          /\ extensions' = extensions
          /\ closed' = closed
          /\ ext_calls' = <<>>
          /\ upserts' = <<>>]_vars

C1_Witness ==
    /\ Done /\ ~Authorized
    /\ inv.cmd = "load" /\ inv.extensions # <<>> /\ Flat(inv.extensions) # <<>>

\* C2: a caller outside the allow-list gets no output from any command: no
\* message is sent or edited by an invocation of such a caller.
C2_UnauthorizedNoOutput == (inv.author \notin AllowedIds) => msgs = <<>>

\* C3: load and unload continue on error: the calls made so far are the given
\* name occurrences in input order, one call each, and when the handler is done
\* every occurrence has been called and the report sent has one entry per
\* occurrence in the same order, failed exactly when that call failed.
C3_ContinueOnError ==
    (inv.cmd \in {"load", "unload"} /\ Authorized) =>
        /\ Len(ext_calls) <= Len(GivenNames)
        /\ \A i \in 1..Len(ext_calls) :
              /\ ext_calls[i].name = GivenNames[i]
              /\ IF inv.cmd = "unload" THEN ext_calls[i].method = "unload"
                 ELSE ext_calls[i].method \in {"load", "reload"}
        /\ Done =>
              /\ outcome = "returned"
              /\ Len(ext_calls) = Len(GivenNames)
              /\ Len(SentEntries) = Len(GivenNames)
              /\ \A i \in 1..Len(GivenNames) :
                    /\ SentEntries[i].name = GivenNames[i]
                    /\ SentEntries[i].failed = ~ext_calls[i].ok

C3_Witness ==
    /\ Done /\ Authorized /\ inv.cmd = "load"
    /\ Len(ext_calls) >= 3
    /\ ~ext_calls[1].ok /\ ext_calls[2].ok /\ ~ext_calls[3].ok

\* C4: an authorized sync with an application id and valid targets issues its
\* bulk upserts in the normalized order: no target twice, global first, guild
\* ids ascending, only targets the arguments name, and, when done, all of
\* them; without targets that is exactly one request, to global.
C4_SyncNormalized ==
    (inv.cmd = "sync" /\ Authorized /\ inv.application_id /\ ~HasOffending) =>
        /\ \A i, j \in 1..Len(upserts) :
              i < j => Before(RequestTarget(upserts[i]), RequestTarget(upserts[j]))
        /\ \A i \in 1..Len(upserts) : RequestTarget(upserts[i]) \in ExpectedGuilds
        /\ Done =>
              /\ outcome = "returned"
              /\ {RequestTarget(upserts[i]) : i \in 1..Len(upserts)} = ExpectedGuilds
              /\ inv.targets = <<>> => (Len(upserts) = 1 /\ upserts[1].endpoint = "global")

C4_Witness ==
    /\ Done /\ Authorized /\ inv.cmd = "sync"
    /\ Len(inv.targets) = 2 /\ inv.targets[1] = <<"*">> /\ inv.targets[2] = <<"$">>
    /\ Len(upserts) = 3 /\ upserts[1].endpoint = "global"

\* C5: sync reports per target and goes on after a failure: every request made
\* has its one entry, a warning exactly when the request failed; a failure of
\* the diagnosis shows as the generic notice in that entry; and when the
\* handler is done a request was made for every target and the entries were sent.
C5_SyncContinues ==
    (inv.cmd = "sync" /\ Authorized) =>
        /\ Len(paginator) = Len(upserts)
        /\ \A i \in 1..Len(upserts) :
              /\ paginator[i].kind = IF upserts[i].ok THEN "synced" ELSE "warning"
              /\ (\E k \in 1..Len(upserts[i].error) :
                      upserts[i].error[k].match /\ upserts[i].error[k].odd) =>
                  \E n \in 1..Len(paginator[i].error_lines) :
                      paginator[i].error_lines[n].note = "Couldn't determine cause"
        /\ (Done /\ inv.application_id /\ ~HasOffending) =>
              /\ Len(upserts) = Cardinality(ExpectedGuilds)
              /\ SentEntries = paginator

C5_Witness ==
    /\ Done /\ Authorized /\ inv.cmd = "sync"
    /\ Len(upserts) = 3
    /\ ~upserts[1].ok /\ upserts[2].ok /\ ~upserts[3].ok
    /\ \E k \in 1..Len(upserts[1].error) : upserts[1].error[k].odd

\* C6 as stated: every authorized handler ends by returning, never by raising.
C6_NeverRaises == (Done /\ Authorized) => outcome = "returned"

\* C6, amended: a failed extension call and a failed bulk upsert are reported in
\* the messages sent and the handler returns; a sync target that is no integer,
\* when the validation reaches it, is not reported: the handler sends nothing,
\* issues no request and ends by raising BadArgument.  Nothing else raises.
C6_ErrorsSurfaced ==
    (Done /\ Authorized) =>
        /\ outcome \in {"returned", "BadArgument"}
        /\ inv.cmd \in {"load", "unload"} =>
              /\ Len(SentEntries) = Len(ext_calls)
              /\ \A i \in 1..Len(ext_calls) : ~ext_calls[i].ok => SentEntries[i].failed
        /\ inv.cmd = "sync" =>
              /\ Len(SentEntries) = Len(upserts)
              /\ \A i \in 1..Len(upserts) : ~upserts[i].ok => SentEntries[i].kind = "warning"
        /\ outcome = "BadArgument" <=>
              /\ inv.cmd = "sync" /\ inv.application_id
              /\ HasOffending /\ NotAnInteger(inv.targets[FirstOffending])
        /\ outcome = "BadArgument" => (msgs = <<>> /\ upserts = <<>>)

C6_Witness ==
    /\ Done /\ Authorized /\ outcome = "BadArgument"
    /\ Len(inv.targets) = 2 /\ inv.targets[1] = <<"2">>

\* C7: load/reload decides by the loaded set at the moment a name is reached:
\* reload exactly when the name is loaded then, so a name listed twice in a
\* row is reloaded after a successful load and loaded again after a failed
\* one; 'reload' without names acts on jishaku alone, 'load' without names
\* calls nothing and sends nothing.
C7_MethodByCurrentSet ==
    (inv.cmd = "load" /\ Authorized) =>
        /\ \A i \in 1..Len(ext_calls) :
              (ext_calls[i].method = "reload") <=> ext_calls[i].was_loaded
        /\ \A i \in 1..(Len(ext_calls) - 1) :
              (ext_calls[i].method = "load" /\ ext_calls[i + 1].name = ext_calls[i].name) =>
                  ext_calls[i + 1].method = IF ext_calls[i].ok THEN "reload" ELSE "load"
        /\ (Done /\ inv.extensions = <<>>) =>
              IF inv.invoked_with = "reload"
              THEN Len(ext_calls) = 1 /\ ext_calls[1].name = "jishaku"
              ELSE ext_calls = <<>> /\ msgs = <<>>

C7_Witness ==
    /\ Done /\ Authorized /\ inv.cmd = "load"
    /\ Len(ext_calls) = 2 /\ ext_calls[1].name = ext_calls[2].name
    /\ ext_calls[1].method = "load" /\ ext_calls[1].ok /\ ext_calls[2].method = "reload"

\* the part of C8 that holds as stated: an invocation without application id,
\* or with an offending target, issues no bulk upsert
NoRequestWhenInvalid ==
    (~inv.application_id \/ HasOffending) => upserts = <<>>

\* C8 as stated: an invalid sync issues no request, and sends exactly one
\* message when the application id is missing or some target is '.' without a
\* guild.
C8_ValidateFirst ==
    (inv.cmd = "sync" /\ Authorized) =>
        /\ NoRequestWhenInvalid
        /\ (Done /\ (~inv.application_id
                       \/ \E i \in 1..Len(inv.targets) : DotWithoutGuild(inv.targets[i]))) =>
              Len(msgs) = 1

\* C8, amended: an invalid sync issues no request; without application id it
\* sends exactly one message; otherwise the first offending target in argument
\* order decides: '.' without a guild, exactly one message and a return; a
\* target that is no integer, no message and BadArgument.
C8_FirstOffendingDecides ==
    (inv.cmd = "sync" /\ Authorized) =>
        /\ NoRequestWhenInvalid
        /\ (Done /\ ~inv.application_id) => (Len(msgs) = 1 /\ outcome = "returned")
        /\ (Done /\ inv.application_id /\ HasOffending) =>
              IF DotWithoutGuild(inv.targets[FirstOffending])
              THEN Len(msgs) = 1 /\ outcome = "returned"
              ELSE msgs = <<>> /\ outcome = "BadArgument"

C8_Witness ==
    /\ Done /\ Authorized /\ inv.cmd = "sync" /\ inv.application_id
    /\ Len(inv.targets) = 2
    /\ inv.targets[1] = <<"x">> /\ DotWithoutGuild(inv.targets[2])

\* C9: the scope is used consistently for every target: the payload is the
\* global command set iff the request is the global upsert, the entry is
\* labelled global iff the request was global, and a request for a guild id
\* (0 included) carries that guild's command set and its entry names that id.
C9_ScopeConsistent ==
    (inv.cmd = "sync" /\ Authorized) =>
        \A i \in 1..Len(upserts) :
            /\ Len(paginator) >= i
            /\ IsNone(upserts[i].scope) <=> upserts[i].endpoint = "global"
            /\ paginator[i].label = "global" <=> upserts[i].endpoint = "global"
            /\ upserts[i].payload =
                  IF upserts[i].endpoint = "global" THEN <<"ping", "admin">>
                  ELSE IF upserts[i].guild \in inv.tree_guilds THEN <<"local">> ELSE <<>>
            /\ upserts[i].endpoint = "guild" =>
                  /\ upserts[i].scope = Some(upserts[i].guild)
                  /\ paginator[i].guild = upserts[i].guild

\* the readings a request's text has to show: the durations of the requests before it
ElapsedBefore(k) == [j \in 1..(k - 1) |-> probes[j].elapsed]

\* the positive latencies met after the requests before request k
RECURSIVE PositiveAfter(_)
PositiveAfter(k) ==
    IF k = 0 THEN <<>>
    ELSE IF probes[k].after > 0 THEN Append(PositiveAfter(k - 1), probes[k].after)
    ELSE PositiveAfter(k - 1)

RttRequests ==
    /\ Len(msgs) = Len(probes)
    /\ Len(msgs) <= 6
    /\ Done => Len(msgs) = 6
    /\ \A k \in 1..Len(msgs) :
          /\ IF k = 1 THEN msgs[k].kind = "send"
             ELSE msgs[k].kind = "edit" /\ msgs[k].target = 1
          /\ msgs[k].readings = ElapsedBefore(k)

\* C10 as stated: six requests, a send and five edits of it, the k-th showing
\* the k-1 durations before it; no latency that is 0 or negative is recorded or
\* shown.
C10_RttIgnoresBadLatency ==
    (inv.cmd = "rtt" /\ Authorized) =>
        /\ RttRequests
        /\ \A i \in 1..Len(websocket_readings) : websocket_readings[i] > 0
        /\ \A k \in 1..Len(msgs) :
              PositiveAfter(k - 1) = <<>> => probes[k].before > 0

\* C10, amended: six requests, a send and five edits of it, the k-th showing
\* the k-1 durations before it; a latency that is 0 or negative is never
\* recorded, so the mean shown is over positive latencies only; while nothing
\* is recorded the text shows bot.latency as it is, positive or not.
C10_RttRecordsPositiveOnly ==
    (inv.cmd = "rtt" /\ Authorized) =>
        /\ RttRequests
        /\ websocket_readings = PositiveAfter(Len(probes))
        /\ \A k \in 1..Len(msgs) :
              LET recorded == PositiveAfter(k - 1)
              IN  msgs[k].ws = IF recorded # <<>>
                               THEN (100 * Sum(recorded)) \div Len(recorded)
                               ELSE 100 * probes[k].before

C10_Witness ==
    /\ Done /\ Authorized /\ inv.cmd = "rtt"
    /\ probes[1].before <= 0 /\ probes[1].after = 0 /\ probes[2].after < 0
    /\ Len(websocket_readings) = 2
====
